---- MODULE Spec2Model ----
(***************************************************************************)
(* Job-control and progress-persistence engine of                          *)
(* single_threading-Code/scraper.py: the Flask control surface             *)
(* (start_scraping_api, scraping_status_api, signal_handler), the worker    *)
(* scraping_worker with check_pause, process_cid, save_status and          *)
(* save_data, and the three durable stores (status file, tabular store,    *)
(* failed list).                                                           *)
(*                                                                         *)
(* Every read or write of a shared global or of a file is one step of the  *)
(* thread that makes it.  A file is written in two steps, as open(.., "w") *)
(* truncates before the content is dumped.                                 *)
(***************************************************************************)
EXTENDS Integers, Sequences, FiniteSets, TLC

\* ------------------------------------------------------------------ bounds
MaxLen == 2          \* longest work list
MaxRuns == 2         \* accepted starts (also the logical clock's range)
MaxThreads == 2      \* Thread objects that exist at once
MaxHandlers == 2     \* start requests in flight at once
MaxLenConc == 1      \* longest work list under concurrent requests

\* ------------------------------------------------------- program constants
MAX_RETRIES == 3
FLUSH_EVERY == 10
CAPTCHA_RETRY_DELAY == 5

CIDS == {"A", "B"}
Threads == 1..MaxThreads
Handlers == 1..MaxHandlers
SerialHandlers == {1}

\* what one successful process_cid call can return: {bill_month: amount},
\* in page order; no row with 4 cells gives the empty dict
CID_DATA == { <<>>, << <<"m1", "10">> >>, << <<"m1", "10">>, <<"m2", "20">> >> }

RECURSIVE SeqsUpTo(_)
SeqsUpTo(n) ==
    IF n = 0 THEN { <<>> }
    ELSE LET S == SeqsUpTo(n - 1)
         IN S \cup { Append(s, c) : s \in { x \in S : Len(x) = n - 1 }, c \in CIDS }

\* a readable input sheet has at least one row (df[0] raises on an empty one)
WorkLists == SeqsUpTo(MaxLen) \ { <<>> }

VARIABLES
    should_pause,    \* global flag
    should_stop,     \* global flag
    scraper_thread,  \* global: 0 is None, else a thread
    thr,             \* the Thread objects and the locals of their scraping_worker
    req,             \* start_scraping_api requests in flight
    serving,         \* the Flask main thread is serving requests
    INPUT_FILE,
    OUTPUT_FILE,
    FAILED_FILE,
    STATUS_FILE,
    now              \* logical clock (datetime.now()): the number of Threads created

vars == << should_pause, should_stop, scraper_thread, thr, req, serving,
           INPUT_FILE, OUTPUT_FILE, FAILED_FILE, STATUS_FILE, now >>

disk == << INPUT_FILE, OUTPUT_FILE, FAILED_FILE, STATUS_FILE >>
flags == << should_pause, should_stop >>

\* ------------------------------------------------------------ dictionaries
\* a Python dict is the sequence of its (key, value) pairs in insertion order
Keys(d) == { d[i][1] : i \in DOMAIN d }
Has(d, k) == k \in Keys(d)
Get(d, k) == d[CHOOSE i \in DOMAIN d : d[i][1] = k][2]
Put(d, k, v) ==
    IF Has(d, k)
    THEN [i \in DOMAIN d |-> IF d[i][1] = k THEN <<k, v>> ELSE d[i]]
    ELSE Append(d, <<k, v>>)

\* ------------------------------------------------------------------- files
\* st: "absent", "partial" (opened for writing, content not yet complete:
\* zero-length or malformed), "ok"
AbsentStatus == [last_processed |-> 0, total_processed |-> 0, start_time |-> 0, last_updated |-> 0]
NoStatusFile == [st |-> "absent", val |-> AbsentStatus]
NoOutputFile == [st |-> "absent", rows |-> <<>>]
NoFailedFile == [st |-> "absent", ids |-> {}]
NoInputFile == [st |-> "absent", cids |-> <<>>]

\* load_status: the stored record, or the default on any read failure
load_status == IF STATUS_FILE.st = "ok" THEN STATUS_FILE.val ELSE AbsentStatus

\* load_existing_data, first half: the rows of the tabular store, none on failure
load_existing_df == IF OUTPUT_FILE.st = "ok" THEN OUTPUT_FILE.rows ELSE <<>>

\* load_existing_data, second half: the failed list, empty on failure
load_existing_failed == IF FAILED_FILE.st = "ok" THEN FAILED_FILE.ids ELSE {}

\* save_data lines 669-676: one row (CID, Month, Amount) per (cid, month)
RECURSIVE data_list(_)
data_list(output_data) ==
    IF output_data = <<>> THEN <<>>
    ELSE LET cid == output_data[1][1]
             months == output_data[1][2]
         IN [i \in 1..Len(months) |-> <<cid, months[i][1], months[i][2]>>]
            \o data_list(Tail(output_data))

\* scraping_worker lines 834-844: every column of a row other than CID becomes a
\* key of output_data[cid]; the columns of the store are CID, Month, Amount
RECURSIVE rebuild(_, _)
rebuild(rows, output_data) ==
    IF rows = <<>> THEN output_data
    ELSE LET cid == rows[1][1]
             old == IF Has(output_data, cid) THEN Get(output_data, cid) ELSE <<>>
             new == Put(Put(old, "Month", rows[1][2]), "Amount", rows[1][3])
         IN rebuild(Tail(rows), Put(output_data, cid, new))

\* ----------------------------------------------------------------- threads
NoThread ==
    [pc |-> "none", how |-> "none", driver |-> FALSE, cid_list |-> <<>>,
     output_data |-> <<>>, not_scraped |-> {}, status |-> AbsentStatus,
     success_count |-> 0, failed_count |-> 0, index |-> 0, retries |-> 0,
     ss_ret |-> "none", sd_ret |-> "none", sd_failed |-> {},
     \* history of this run, read by no step: the stores were empty when it
     \* loaded them, the identifiers whose process_cid returned / raised,
     \* the offset right after the last item it attempted (the start index
     \* before it has attempted any)
     from_empty |-> FALSE, returned |-> {}, raised |-> {}, attempted_to |-> 0,
     \* the number of driver.quit() calls it has made, and the number of items
     \* it has attempted since its last save_data returned
     quit_calls |-> 0, since_flush |-> 0,
     \* the delays its current process_cid call has slept between attempts
     slept |-> <<>>,
     \* during a save_status call: what load_status gave when the call began
     ss_before |-> AbsentStatus]

is_alive(t) == thr[t].pc \notin {"none", "new", "done"}

\* a request handler: where it is, its local status (scraping_status_api) and
\* the last response it sent
IdleRequest == [pc |-> "idle", resp |-> "none", status |-> AbsentStatus]

Init ==
    /\ should_pause = FALSE
    /\ should_stop = FALSE
    /\ scraper_thread = 0
    /\ thr = [t \in Threads |-> NoThread]
    /\ req = [h \in Handlers |-> IdleRequest]
    /\ serving = TRUE
    /\ INPUT_FILE \in {NoInputFile} \cup { [st |-> "ok", cids |-> l] : l \in WorkLists }
    /\ OUTPUT_FILE = NoOutputFile
    /\ FAILED_FILE = NoFailedFile
    /\ STATUS_FILE = NoStatusFile
    /\ now = 0

Set(t, r) == thr' = [thr EXCEPT ![t] = r]
At(t, label) == thr[t].pc = label

\* ------------------------------------------------------ scraping_worker
\* line 825: initialize_browser returns a driver or raises
InitializeBrowser(t) ==
    /\ At(t, "init_browser")
    /\ \/ Set(t, [thr[t] EXCEPT !.driver = TRUE, !.pc = "load_input"])
       \/ Set(t, [thr[t] EXCEPT !.how = "failed", !.pc = "quit"])
    /\ UNCHANGED << flags, scraper_thread, req, serving, disk, now >>

\* (a bug for C14: an unreadable work list is taken for an empty one)
LoadInput_Tolerant(t) ==
    /\ At(t, "load_input")
    /\ Set(t, [thr[t] EXCEPT !.cid_list = INPUT_FILE.cids, !.pc = "load_output"])
    /\ UNCHANGED << flags, scraper_thread, req, serving, disk, now >>

\* lines 828-829: read the work list; an unreadable sheet raises
LoadInput(t) ==
    /\ At(t, "load_input")
    /\ IF INPUT_FILE.st = "ok"
       THEN Set(t, [thr[t] EXCEPT !.cid_list = INPUT_FILE.cids, !.pc = "load_output"])
       ELSE Set(t, [thr[t] EXCEPT !.how = "failed", !.pc = "quit"])
    /\ UNCHANGED << flags, scraper_thread, req, serving, disk, now >>

\* (a bug for C18: a tabular store that cannot be read ends the run)
LoadOutput_Fatal(t) ==
    /\ At(t, "load_output")
    /\ IF OUTPUT_FILE.st = "partial"
       THEN Set(t, [thr[t] EXCEPT !.how = "failed", !.pc = "quit"])
       ELSE Set(t, [thr[t] EXCEPT !.output_data = rebuild(load_existing_df, <<>>),
                                  !.pc = "load_failed"])
    /\ UNCHANGED << flags, scraper_thread, req, serving, disk, now >>

\* lines 830 (tabular store) and 834-844
LoadOutput(t) ==
    /\ At(t, "load_output")
    /\ Set(t, [thr[t] EXCEPT !.output_data = rebuild(load_existing_df, <<>>),
                             !.pc = "load_failed"])
    /\ UNCHANGED << flags, scraper_thread, req, serving, disk, now >>

\* lines 830 (failed list) and 846
LoadFailed(t) ==
    /\ At(t, "load_failed")
    /\ Set(t, [thr[t] EXCEPT !.not_scraped = load_existing_failed, !.pc = "load_status"])
    /\ UNCHANGED << flags, scraper_thread, req, serving, disk, now >>

\* (a bug for C11: the run starts at index 0 whatever the status store holds)
LoadStatus_FromZero(t) ==
    /\ At(t, "load_status")
    /\ LET status == load_status
           r == [thr[t] EXCEPT !.status = status,
                              !.success_count = status.total_processed,
                              !.failed_count = Cardinality(thr[t].not_scraped),
                              !.index = 0,
                              !.attempted_to = status.last_processed]
       IN IF status.start_time = 0
          THEN Set(t, [r EXCEPT !.status.start_time = now, !.ss_ret = "loop", !.pc = "ss_open"])
          ELSE Set(t, [r EXCEPT !.pc = "loop"])
    /\ UNCHANGED << flags, scraper_thread, req, serving, disk, now >>

\* (a bug for C23: every run stamps start_time, whatever the status holds)
LoadStatus_Restamps(t) ==
    /\ At(t, "load_status")
    /\ LET status == load_status
           r0 == [thr[t] EXCEPT !.status = status,
                               !.success_count = status.total_processed,
                               !.failed_count = Cardinality(thr[t].not_scraped),
                               !.index = status.last_processed,
                               !.attempted_to = status.last_processed]
           r == [r0 EXCEPT !.from_empty = /\ r0.output_data = <<>>
                                          /\ r0.not_scraped = {}
                                          /\ r0.index = 0
                                          /\ r0.success_count = 0]
       IN Set(t, [r EXCEPT !.status.start_time = now, !.ss_ret = "loop", !.pc = "ss_open"])
    /\ UNCHANGED << flags, scraper_thread, req, serving, disk, now >>

\* lines 831 and 848-857 up to the call of save_status
LoadStatus(t) ==
    /\ At(t, "load_status")
    /\ LET status == load_status
           r0 == [thr[t] EXCEPT !.status = status,
                               !.success_count = status.total_processed,
                               !.failed_count = Cardinality(thr[t].not_scraped),
                               !.index = status.last_processed,
                               !.attempted_to = status.last_processed]
           r == [r0 EXCEPT !.from_empty = /\ r0.output_data = <<>>
                                          /\ r0.not_scraped = {}
                                          /\ r0.index = 0
                                          /\ r0.success_count = 0]
       IN IF status.start_time = 0
          THEN Set(t, [r EXCEPT !.status.start_time = now, !.ss_ret = "loop", !.pc = "ss_open"])
          ELSE Set(t, [r EXCEPT !.pc = "loop"])
    /\ UNCHANGED << flags, scraper_thread, req, serving, disk, now >>

\* save_status line 633: open(STATUS_FILE, "w") truncates
SaveStatusOpen(t) ==
    /\ At(t, "ss_open")
    /\ STATUS_FILE' = [st |-> "partial", val |-> AbsentStatus]
    /\ Set(t, [thr[t] EXCEPT !.ss_before = load_status, !.pc = "ss_dump"])
    /\ UNCHANGED << flags, scraper_thread, req, serving, INPUT_FILE, OUTPUT_FILE, FAILED_FILE, now >>

\* line 899: after the checkpoint, the periodic save or the next index
AfterCheckpoint(r) ==
    IF (r.index + 1) % FLUSH_EVERY = 0
    THEN [r EXCEPT !.sd_ret = "next", !.pc = "sd_open"]
    ELSE [r EXCEPT !.index = r.index + 1, !.pc = "loop"]

\* save_status line 634: json.dump, then back to the caller (857 or 896)
SaveStatusDump(t) ==
    /\ At(t, "ss_dump")
    /\ STATUS_FILE' = [st |-> "ok", val |-> thr[t].status]
    /\ Set(t, IF thr[t].ss_ret = "loop"
              THEN [thr[t] EXCEPT !.ss_ret = "none", !.ss_before = AbsentStatus, !.pc = "loop"]
              ELSE AfterCheckpoint([thr[t] EXCEPT !.ss_ret = "none", !.ss_before = AbsentStatus]))
    /\ UNCHANGED << flags, scraper_thread, req, serving, INPUT_FILE, OUTPUT_FILE, FAILED_FILE, now >>

\* (a bug for C7: the loop never looks at should_stop)
LoopHead_IgnoresStop(t) ==
    /\ At(t, "loop")
    /\ Set(t, IF thr[t].index >= Len(thr[t].cid_list)
              THEN [thr[t] EXCEPT !.how = "natural", !.sd_ret = "quit", !.pc = "sd_open"]
              ELSE [thr[t] EXCEPT !.pc = "check_pause"])
    /\ UNCHANGED << flags, scraper_thread, req, serving, disk, now >>

\* (a bug for C12: a stopped run goes straight to the end of the worker)
LoopHead_StopSkipsFlush(t) ==
    /\ At(t, "loop")
    /\ Set(t, IF thr[t].index >= Len(thr[t].cid_list)
              THEN [thr[t] EXCEPT !.how = "natural", !.sd_ret = "quit", !.pc = "sd_open"]
              ELSE IF should_stop
                   THEN [thr[t] EXCEPT !.how = "stopped", !.pc = "quit"]
                   ELSE [thr[t] EXCEPT !.pc = "check_pause"])
    /\ UNCHANGED << flags, scraper_thread, req, serving, disk, now >>

\* lines 862-865: the range is exhausted, or should_stop is read
LoopHead(t) ==
    /\ At(t, "loop")
    /\ Set(t, IF thr[t].index >= Len(thr[t].cid_list)
              THEN [thr[t] EXCEPT !.how = "natural", !.sd_ret = "quit", !.pc = "sd_open"]
              ELSE IF should_stop
                   THEN [thr[t] EXCEPT !.how = "stopped", !.sd_ret = "quit", !.pc = "sd_open"]
                   ELSE [thr[t] EXCEPT !.pc = "check_pause"])
    /\ UNCHANGED << flags, scraper_thread, req, serving, disk, now >>

\* (a bug for C2: only the ResultSet is consulted before fetching)
Select_SkipsOnlyResults(r) ==
    LET cid == r.cid_list[r.index + 1]
    IN IF Has(r.output_data, cid)
       THEN [r EXCEPT !.index = r.index + 1, !.pc = "loop"]
       ELSE [r EXCEPT !.retries = 0, !.slept = <<>>, !.pc = "net_check"]

\* lines 871-877, once check_pause has returned False: skip a known
\* identifier, else call process_cid
Select(r) ==
    LET cid == r.cid_list[r.index + 1]
    IN IF Has(r.output_data, cid) \/ cid \in r.not_scraped
       THEN [r EXCEPT !.index = r.index + 1, !.pc = "loop"]
       ELSE [r EXCEPT !.retries = 0, !.slept = <<>>, !.pc = "net_check"]

\* (a bug for C6: check_pause returns False without looking at the flag)
CheckPause_Ignored(t) ==
    /\ At(t, "check_pause")
    /\ Set(t, Select(thr[t]))
    /\ UNCHANGED << flags, scraper_thread, req, serving, disk, now >>

\* check_pause line 703
CheckPause(t) ==
    /\ At(t, "check_pause")
    /\ Set(t, IF should_pause THEN [thr[t] EXCEPT !.pc = "pause_while"] ELSE Select(thr[t]))
    /\ UNCHANGED << flags, scraper_thread, req, serving, disk, now >>

\* check_pause lines 705-706
PauseWhile(t) ==
    /\ At(t, "pause_while")
    /\ Set(t, IF should_pause THEN [thr[t] EXCEPT !.pc = "pause_stop"] ELSE Select(thr[t]))
    /\ UNCHANGED << flags, scraper_thread, req, serving, disk, now >>

\* check_pause lines 707-709
PauseStop(t) ==
    /\ At(t, "pause_stop")
    /\ Set(t, IF should_stop THEN [thr[t] EXCEPT !.pc = "set_stop"]
                             ELSE [thr[t] EXCEPT !.pc = "pause_while"])
    /\ UNCHANGED << flags, scraper_thread, req, serving, disk, now >>

\* lines 867-869: check_pause returned True
SetStop(t) ==
    /\ At(t, "set_stop")
    /\ should_stop' = TRUE
    /\ Set(t, [thr[t] EXCEPT !.how = "stopped", !.sd_ret = "quit", !.pc = "sd_open"])
    /\ UNCHANGED << should_pause, scraper_thread, req, serving, disk, now >>

\* (a bug for C5: the checkpoint records index instead of index + 1)
Checkpoint_NoAdvance(r) ==
    [r EXCEPT !.status.last_processed = r.index,
              !.status.total_processed = r.success_count,
              !.status.last_updated = now,
              !.ss_ret = "periodic", !.pc = "ss_open"]

\* (a bug for C19: the checkpoint keeps the success count it was loaded with)
Checkpoint_StaleTotal(r) ==
    [r EXCEPT !.status.last_processed = r.index + 1,
              !.status.last_updated = now,
              !.ss_ret = "periodic", !.pc = "ss_open"]

\* lines 891-896 up to the call of save_status
Checkpoint(r) ==
    [r EXCEPT !.status.last_processed = r.index + 1,
              !.status.total_processed = r.success_count,
              !.status.last_updated = now,
              !.ss_ret = "periodic", !.pc = "ss_open"]

\* (a bug for C10: a success is stored but not counted)
Succeeded_NotCounted(r, cid_data) ==
    Checkpoint([r EXCEPT !.output_data = Put(r.output_data, r.cid_list[r.index + 1], cid_data)])

\* lines 881-882: process_cid returned cid_data
Succeeded(r, cid_data) ==
    LET s == [r EXCEPT !.output_data = Put(r.output_data, r.cid_list[r.index + 1], cid_data),
                       !.success_count = r.success_count + 1,
                       !.attempted_to = r.index + 1,
                       !.since_flush = r.since_flush + 1]
    IN Checkpoint(s)

\* (a bug for C9: the exception is not caught at the item and ends the run)
Failed_Aborts(r) == [r EXCEPT !.how = "failed", !.pc = "quit"]

\* lines 885-888: process_cid raised
Failed(r) ==
    LET s == [r EXCEPT !.not_scraped = r.not_scraped \cup {r.cid_list[r.index + 1]},
                       !.failed_count = r.failed_count + 1,
                       !.attempted_to = r.index + 1,
                       !.since_flush = r.since_flush + 1]
    IN Checkpoint(s)

\* (a bug for C15: the budget is compared with <=, one attempt too many)
AttemptFailed_OneMore(r) ==
    IF r.retries + 1 <= MAX_RETRIES
    THEN [r EXCEPT !.retries = r.retries + 1,
                   !.slept = Append(@, CAPTCHA_RETRY_DELAY), !.pc = "net_check"]
    ELSE Failed([r EXCEPT !.retries = r.retries + 1,
                          !.raised = @ \cup {r.cid_list[r.index + 1]}])

\* (a bug for C25: the delay grows with the number of failed attempts)
AttemptFailed_Backoff(r) ==
    IF r.retries + 1 < MAX_RETRIES
    THEN [r EXCEPT !.retries = r.retries + 1,
                   !.slept = Append(@, CAPTCHA_RETRY_DELAY * (r.retries + 1)),
                   !.pc = "net_check"]
    ELSE Failed([r EXCEPT !.retries = r.retries + 1,
                          !.raised = @ \cup {r.cid_list[r.index + 1]}])

\* process_cid lines 810-816: a failed attempt is retried after a sleep of
\* CAPTCHA_RETRY_DELAY seconds, or raised
AttemptFailed(r) ==
    IF r.retries + 1 < MAX_RETRIES
    THEN [r EXCEPT !.retries = r.retries + 1,
                   !.slept = Append(@, CAPTCHA_RETRY_DELAY), !.pc = "net_check"]
    ELSE Failed([r EXCEPT !.retries = r.retries + 1,
                          !.raised = @ \cup {r.cid_list[r.index + 1]}])

\* process_cid lines 742-745: check_internet_connection answers True or False,
\* or raises (requests raises more than ConnectionError, e.g. a read timeout)
NetCheck(t) ==
    /\ At(t, "net_check")
    /\ \/ Set(t, [thr[t] EXCEPT !.pc = "fetch"])
       \/ Set(t, [thr[t] EXCEPT !.pc = "wait_net"])
       \/ Set(t, AttemptFailed(thr[t]))
    /\ UNCHANGED << flags, scraper_thread, req, serving, disk, now >>

\* wait_for_internet lines 616-617: poll until the probe answers True
WaitForInternet(t) ==
    /\ At(t, "wait_net")
    /\ \/ Set(t, [thr[t] EXCEPT !.pc = "fetch"])
       \/ Set(t, thr[t])
       \/ Set(t, AttemptFailed(thr[t]))
    /\ UNCHANGED << flags, scraper_thread, req, serving, disk, now >>

\* process_cid lines 747-808: the page yields cid_data, or anything raises;
\* or the site shows an alert after the sign-in: lines 764-770 read it, accept
\* it and raise "CAPTCHA validation failed" inside a try whose bare except
\* catches that exception, and the attempt goes on at line 772
Fetch(t) ==
    /\ At(t, "fetch")
    /\ \/ \E cid_data \in CID_DATA :
            Set(t, Succeeded([thr[t] EXCEPT !.returned = @ \cup {thr[t].cid_list[thr[t].index + 1]}],
                             cid_data))
       \/ Set(t, AttemptFailed(thr[t]))
       \/ Set(t, [thr[t] EXCEPT !.pc = "after_alert"])
    /\ UNCHANGED << flags, scraper_thread, req, serving, disk, now >>

\* process_cid lines 772-808 after an alert: the history page yields cid_data,
\* or anything raises (a missing history button, no data row)
AfterAlert(t) ==
    /\ At(t, "after_alert")
    /\ \/ \E cid_data \in CID_DATA :
            Set(t, Succeeded([thr[t] EXCEPT !.returned = @ \cup {thr[t].cid_list[thr[t].index + 1]}],
                             cid_data))
       \/ Set(t, AttemptFailed(thr[t]))
    /\ UNCHANGED << flags, scraper_thread, req, serving, disk, now >>

\* save_data line 680: to_excel opens the sheet for writing
SaveDataOpen(t) ==
    /\ At(t, "sd_open")
    /\ OUTPUT_FILE' = [st |-> "partial", rows |-> <<>>]
    /\ Set(t, [thr[t] EXCEPT !.pc = "sd_write"])
    /\ UNCHANGED << flags, scraper_thread, req, serving, INPUT_FILE, FAILED_FILE, STATUS_FILE, now >>

\* save_data returns: to the loop (line 901) or to the end of the worker (905-921)
SaveDataReturn(r) ==
    IF r.sd_ret = "next"
    THEN [r EXCEPT !.sd_ret = "none", !.sd_failed = {}, !.since_flush = 0,
                   !.index = r.index + 1, !.pc = "loop"]
    ELSE [r EXCEPT !.sd_ret = "none", !.sd_failed = {}, !.since_flush = 0, !.pc = "quit"]

\* save_data lines 669-683: the whole ResultSet replaces the sheet
SaveDataWrite(t) ==
    /\ At(t, "sd_write")
    /\ OUTPUT_FILE' = [st |-> "ok", rows |-> data_list(thr[t].output_data)]
    /\ Set(t, IF thr[t].not_scraped # {}
              THEN [thr[t] EXCEPT !.sd_failed = thr[t].not_scraped, !.pc = "fl_read"]
              ELSE SaveDataReturn(thr[t]))
    /\ UNCHANGED << flags, scraper_thread, req, serving, INPUT_FILE, FAILED_FILE, STATUS_FILE, now >>

\* (a bug for C8: the failed list on disk is not read before it is overwritten)
SaveFailedRead_NoUnion(t) ==
    /\ At(t, "fl_read")
    /\ Set(t, [thr[t] EXCEPT !.pc = "fl_open"])
    /\ UNCHANGED << flags, scraper_thread, req, serving, disk, now >>

\* save_data lines 685-691: union with the failed list on disk, if readable
SaveFailedRead(t) ==
    /\ At(t, "fl_read")
    /\ Set(t, [thr[t] EXCEPT !.sd_failed = thr[t].sd_failed \cup load_existing_failed,
                             !.pc = "fl_open"])
    /\ UNCHANGED << flags, scraper_thread, req, serving, disk, now >>

\* save_data line 693
SaveFailedOpen(t) ==
    /\ At(t, "fl_open")
    /\ FAILED_FILE' = [st |-> "partial", ids |-> {}]
    /\ Set(t, [thr[t] EXCEPT !.pc = "fl_dump"])
    /\ UNCHANGED << flags, scraper_thread, req, serving, INPUT_FILE, OUTPUT_FILE, STATUS_FILE, now >>

\* save_data line 694
SaveFailedDump(t) ==
    /\ At(t, "fl_dump")
    /\ FAILED_FILE' = [st |-> "ok", ids |-> thr[t].sd_failed]
    /\ Set(t, SaveDataReturn(thr[t]))
    /\ UNCHANGED << flags, scraper_thread, req, serving, INPUT_FILE, OUTPUT_FILE, STATUS_FILE, now >>

\* (a bug for C13: the browser is closed at the end of the try block, which a
\* failed run never reaches, instead of in the finally block)
Quit_NotInFinally(t) ==
    /\ At(t, "quit")
    /\ Set(t, [thr[t] EXCEPT !.quit_calls = IF thr[t].driver /\ thr[t].how # "failed"
                                            THEN @ + 1 ELSE @,
                             !.pc = "end"])
    /\ UNCHANGED << flags, scraper_thread, req, serving, disk, now >>

\* lines 923-928: the except clause logs, the finally block calls
\* driver.quit() if there is a driver
Quit(t) ==
    /\ At(t, "quit")
    /\ Set(t, [thr[t] EXCEPT !.quit_calls = IF thr[t].driver THEN @ + 1 ELSE @,
                             !.pc = "end"])
    /\ UNCHANGED << flags, scraper_thread, req, serving, disk, now >>

\* scraping_worker returns and the thread ends.  A Thread object nothing
\* refers to any more is collected.
ThreadEnd(t) ==
    /\ At(t, "end")
    /\ Set(t, [NoThread EXCEPT !.pc = IF scraper_thread = t THEN "done" ELSE "none"])
    /\ UNCHANGED << flags, scraper_thread, req, serving, disk, now >>

\* the steps of a worker outside the wait loop of check_pause
WorkerRunning(t) ==
    \/ InitializeBrowser(t) \/ LoadInput(t) \/ LoadOutput(t) \/ LoadFailed(t)
    \/ LoadStatus(t) \/ SaveStatusOpen(t) \/ SaveStatusDump(t)
    \/ LoopHead(t) \/ CheckPause(t)
    \/ NetCheck(t) \/ WaitForInternet(t) \/ Fetch(t) \/ AfterAlert(t)
    \/ SaveDataOpen(t) \/ SaveDataWrite(t)
    \/ SaveFailedRead(t) \/ SaveFailedOpen(t) \/ SaveFailedDump(t)
    \/ Quit(t) \/ ThreadEnd(t)

\* the steps inside it, reached only once should_pause has been set
WorkerPaused(t) == PauseWhile(t) \/ PauseStop(t) \/ SetStop(t)

Worker(t) == WorkerRunning(t) \/ WorkerPaused(t)

\* ------------------------------------------------------ start_scraping_api
active == scraper_thread # 0 /\ is_alive(scraper_thread)

\* a POST /start-scraping request reaches its handler thread
StartReceive(h) ==
    /\ serving
    /\ req[h].pc = "idle"
    /\ req' = [req EXCEPT ![h] = [IdleRequest EXCEPT !.pc = "check"]]
    /\ UNCHANGED << flags, scraper_thread, thr, serving, disk, now >>

\* (a bug for C28: the paused flag is cleared before the already-running check)
StartCheck_ClearsPause(h) ==
    /\ req[h].pc = "check"
    /\ req' = [req EXCEPT ![h] = IF active THEN [IdleRequest EXCEPT !.resp = "400"]
                                           ELSE [IdleRequest EXCEPT !.pc = "reset_pause"]]
    /\ should_pause' = FALSE
    /\ UNCHANGED << should_stop, scraper_thread, thr, serving, disk, now >>

\* lines 936-940
StartCheck(h) ==
    /\ req[h].pc = "check"
    /\ req' = [req EXCEPT ![h] = IF active THEN [IdleRequest EXCEPT !.resp = "400"]
                                           ELSE [IdleRequest EXCEPT !.pc = "reset_pause"]]
    /\ UNCHANGED << flags, scraper_thread, thr, serving, disk, now >>

\* line 942
StartResetPause(h) ==
    /\ req[h].pc = "reset_pause"
    /\ should_pause' = FALSE
    /\ req' = [req EXCEPT ![h].pc = "reset_stop"]
    /\ UNCHANGED << should_stop, scraper_thread, thr, serving, disk, now >>

\* (a bug for C17: the stopping flag is not reset)
StartResetStop_Missing(h) ==
    /\ req[h].pc = "reset_stop"
    /\ req' = [req EXCEPT ![h].pc = "create"]
    /\ UNCHANGED << flags, scraper_thread, thr, serving, disk, now >>

\* line 943
StartResetStop(h) ==
    /\ req[h].pc = "reset_stop"
    /\ should_stop' = FALSE
    /\ req' = [req EXCEPT ![h].pc = "create"]
    /\ UNCHANGED << should_pause, scraper_thread, thr, serving, disk, now >>

\* the Thread objects the global no longer needs once it is reassigned
Collectable == IF scraper_thread # 0 /\ ~is_alive(scraper_thread) THEN {scraper_thread} ELSE {}
FreeThreads == { t \in Threads : thr[t].pc = "none" } \cup Collectable
Lowest(S) == CHOOSE t \in S : \A u \in S : t <= u

\* line 945: scraper_thread = threading.Thread(target=scraping_worker)
StartCreate(h) ==
    /\ req[h].pc = "create"
    /\ now < MaxRuns
    /\ FreeThreads # {}
    /\ LET t == Lowest(FreeThreads)
       IN /\ scraper_thread' = t
          /\ thr' = [u \in Threads |->
                       IF u = t THEN [NoThread EXCEPT !.pc = "new"]
                       ELSE IF u \in Collectable THEN NoThread
                       ELSE thr[u]]
    /\ now' = now + 1
    /\ req' = [req EXCEPT ![h].pc = "start"]
    /\ UNCHANGED << flags, serving, disk >>

\* line 946: scraper_thread.start() reads the global again; starting a thread
\* twice raises RuntimeError
StartThread(h) ==
    /\ req[h].pc = "start"
    /\ IF thr[scraper_thread].pc = "new"
       THEN /\ Set(scraper_thread, [thr[scraper_thread] EXCEPT !.pc = "init_browser"])
            /\ req' = [req EXCEPT ![h] = [IdleRequest EXCEPT !.resp = "200"]]
       ELSE /\ req' = [req EXCEPT ![h] = [IdleRequest EXCEPT !.resp = "500"]]
            /\ UNCHANGED thr
    /\ UNCHANGED << flags, scraper_thread, serving, disk, now >>

start_scraping_api(h) ==
    \/ StartReceive(h) \/ StartCheck(h) \/ StartResetPause(h) \/ StartResetStop(h)
    \/ StartCreate(h) \/ StartThread(h)

\* ---------------------------------------------------- scraping_status_api
StatusHandlers == {2}

\* a GET /scraping-status request reaches its handler thread
StatusReceive(h) ==
    /\ serving
    /\ req[h].pc = "idle"
    /\ req' = [req EXCEPT ![h] = [IdleRequest EXCEPT !.pc = "st_load"]]
    /\ UNCHANGED << flags, scraper_thread, thr, serving, disk, now >>

\* line 956: status = load_status()
StatusLoad(h) ==
    /\ req[h].pc = "st_load"
    /\ req' = [req EXCEPT ![h].status = load_status, ![h].pc = "st_thread"]
    /\ UNCHANGED << flags, scraper_thread, thr, serving, disk, now >>

\* the responses of lines 959-962 ("No scraping session exists") and 965-968
\* ("No active scraping running") have status inactive and carry no counters
NoSession == [IdleRequest EXCEPT !.resp = "inactive: no session"]
NotRunning == [IdleRequest EXCEPT !.resp = "inactive: not running"]

\* lines 958-962: if not scraper_thread
StatusThread(h) ==
    /\ req[h].pc = "st_thread"
    /\ req' = [req EXCEPT ![h] = IF scraper_thread = 0 THEN NoSession
                                 ELSE [req[h] EXCEPT !.pc = "st_alive"]]
    /\ UNCHANGED << flags, scraper_thread, thr, serving, disk, now >>

\* lines 964-968: if not scraper_thread.is_alive()
StatusAlive(h) ==
    /\ req[h].pc = "st_alive"
    /\ req' = [req EXCEPT ![h] = IF ~is_alive(scraper_thread) THEN NotRunning
                                 ELSE [req[h] EXCEPT !.pc = "st_pause"]]
    /\ UNCHANGED << flags, scraper_thread, thr, serving, disk, now >>

\* (a bug for C16: the stopping flag is looked at before the paused flag)
StatusPause_StopFirst(h) ==
    /\ req[h].pc = "st_pause"
    /\ req' = [req EXCEPT ![h] = IF should_stop
                                 THEN [req[h] EXCEPT !.pc = "idle", !.resp = "stopping"]
                                 ELSE IF should_pause
                                      THEN [req[h] EXCEPT !.pc = "idle", !.resp = "paused"]
                                      ELSE [req[h] EXCEPT !.pc = "st_stop"]]
    /\ UNCHANGED << flags, scraper_thread, thr, serving, disk, now >>

\* line 971, first condition; the response of lines 970-981 carries
\* last_processed and total_processed of the local status
StatusPause(h) ==
    /\ req[h].pc = "st_pause"
    /\ req' = [req EXCEPT ![h] = IF should_pause
                                 THEN [req[h] EXCEPT !.pc = "idle", !.resp = "paused"]
                                 ELSE [req[h] EXCEPT !.pc = "st_stop"]]
    /\ UNCHANGED << flags, scraper_thread, thr, serving, disk, now >>

\* line 971, second condition
StatusStop(h) ==
    /\ req[h].pc = "st_stop"
    /\ req' = [req EXCEPT ![h] = [req[h] EXCEPT !.pc = "idle",
                                                !.resp = IF should_stop THEN "stopping"
                                                                        ELSE "running"]]
    /\ UNCHANGED << flags, scraper_thread, thr, serving, disk, now >>

scraping_status_api(h) ==
    \/ StatusReceive(h) \/ StatusLoad(h) \/ StatusThread(h) \/ StatusAlive(h)
    \/ StatusPause(h) \/ StatusStop(h)

\* ---------------------------------------------------- the other controls
\* pause(): sets the flag of an active run
Pause ==
    /\ serving /\ active /\ ~should_pause
    /\ should_pause' = TRUE
    /\ UNCHANGED << should_stop, scraper_thread, thr, req, serving, disk, now >>

\* resume(): clears it
Resume ==
    /\ serving /\ active /\ should_pause
    /\ should_pause' = FALSE
    /\ UNCHANGED << should_stop, scraper_thread, thr, req, serving, disk, now >>

\* stop(): sets the stopping flag of an active run
Stop ==
    /\ serving /\ active /\ ~should_stop
    /\ should_stop' = TRUE
    /\ UNCHANGED << should_pause, scraper_thread, thr, req, serving, disk, now >>

\* lines 596-601, on SIGINT: the flag is set and the main thread exits; the
\* interpreter then waits for the worker, which is not a daemon thread
signal_handler ==
    /\ serving
    /\ should_stop' = TRUE
    /\ serving' = FALSE
    /\ UNCHANGED << should_pause, scraper_thread, thr, req, disk, now >>

\* a new process: the globals of lines 569-571, no thread, no request
FreshMemory ==
    /\ should_pause' = FALSE
    /\ should_stop' = FALSE
    /\ scraper_thread' = 0
    /\ thr' = [t \in Threads |-> NoThread]
    /\ req' = [h \in Handlers |-> IdleRequest]
    /\ serving' = TRUE

\* the process ends after SIGINT once no worker is left, and is started again
Exit ==
    /\ ~serving
    /\ \A t \in Threads : ~is_alive(t)
    /\ FreshMemory
    /\ UNCHANGED << disk, now >>

\* the process dies at any point (kill, power loss) and is started again; only
\* the files survive
Crash ==
    /\ \/ scraper_thread # 0
       \/ \E h \in Handlers : req[h] # IdleRequest
       \/ ~serving
    /\ FreshMemory
    /\ UNCHANGED << disk, now >>

\* requests handled one at a time
Next ==
    \/ \E h \in SerialHandlers : start_scraping_api(h)
    \/ \E t \in Threads : Worker(t)
    \/ Pause \/ Resume \/ Stop \/ signal_handler \/ Exit \/ Crash

Spec == Init /\ [][Next]_vars

\* the process is not killed, the scheduler keeps running every worker thread
\* and every probe, page load and sleep of a worker returns
NextLive ==
    \/ \E h \in SerialHandlers : start_scraping_api(h)
    \/ \E t \in Threads : Worker(t)
    \/ Pause \/ Resume \/ Stop \/ signal_handler \/ Exit

LiveSpec == Init /\ [][NextLive]_vars /\ \A t \in Threads : WF_vars(Worker(t))

\* the same steps with no assumption on the scheduler: runs that are started,
\* paused, stopped and started again in a process that is never killed
SpecGraceful == Init /\ [][NextLive]_vars

\* status requests served next to the start requests and the worker; the
\* process is not killed
NextStatus ==
    \/ \E h \in SerialHandlers : start_scraping_api(h)
    \/ \E h \in StatusHandlers : scraping_status_api(h)
    \/ \E t \in Threads : Worker(t)
    \/ Pause \/ Resume \/ Stop \/ signal_handler \/ Exit

InitStatus == Init /\ Len(INPUT_FILE.cids) <= MaxLenConc

SpecStatus == InitStatus /\ [][NextStatus]_vars

\* start requests handled concurrently, as by the threaded Flask server; no
\* pause or stop request is made, so no worker enters the wait loop
NextConc ==
    \/ \E h \in Handlers : start_scraping_api(h)
    \/ \E t \in Threads : WorkerRunning(t)

InitConc == Init /\ Len(INPUT_FILE.cids) <= MaxLenConc

SpecConc == InitConc /\ [][NextConc]_vars

\* ------------------------------------------ a run over a long work list
\* one run, not interrupted, over a list longer than the flush period; every
\* page that loads shows one row
FlushLen == FLUSH_EVERY + 2
LONG_CIDS == <<"c01", "c02", "c03", "c04", "c05", "c06", "c07", "c08", "c09", "c10",
               "c11", "c12">>
\* the list without a repeat, and with its first identifier repeated at the
\* position before a multiple of the period or in the middle of a period
LongLists == { SubSeq(LONG_CIDS, 1, FlushLen),
               [SubSeq(LONG_CIDS, 1, FlushLen) EXCEPT ![FLUSH_EVERY] = "c01"],
               [SubSeq(LONG_CIDS, 1, FlushLen) EXCEPT ![FLUSH_EVERY \div 2] = "c01"] }

InitFlush ==
    /\ should_pause = FALSE
    /\ should_stop = FALSE
    /\ scraper_thread = 0
    /\ thr = [t \in Threads |-> NoThread]
    /\ req = [h \in Handlers |-> IdleRequest]
    /\ serving = TRUE
    /\ INPUT_FILE \in { [st |-> "ok", cids |-> l] : l \in LongLists }
    /\ OUTPUT_FILE = NoOutputFile
    /\ FAILED_FILE = NoFailedFile
    /\ STATUS_FILE = NoStatusFile
    /\ now = 0

\* process_cid lines 747-808 on a page with one row
FetchRow(t) ==
    /\ At(t, "fetch")
    /\ \/ Set(t, Succeeded([thr[t] EXCEPT !.returned = @ \cup {thr[t].cid_list[thr[t].index + 1]}],
                            << <<"m1", "10">> >>))
       \/ Set(t, AttemptFailed(thr[t]))
       \/ Set(t, [thr[t] EXCEPT !.pc = "after_alert"])
    /\ UNCHANGED << flags, scraper_thread, req, serving, disk, now >>

\* process_cid lines 772-808 after an alert, on a page with one row
AfterAlertRow(t) ==
    /\ At(t, "after_alert")
    /\ \/ Set(t, Succeeded([thr[t] EXCEPT !.returned = @ \cup {thr[t].cid_list[thr[t].index + 1]}],
                            << <<"m1", "10">> >>))
       \/ Set(t, AttemptFailed(thr[t]))
    /\ UNCHANGED << flags, scraper_thread, req, serving, disk, now >>

NextFlush ==
    \/ \E h \in SerialHandlers : start_scraping_api(h)
    \/ \E t \in Threads :
          \/ InitializeBrowser(t) \/ LoadInput(t) \/ LoadOutput(t) \/ LoadFailed(t)
          \/ LoadStatus(t) \/ SaveStatusOpen(t) \/ SaveStatusDump(t)
          \/ LoopHead(t) \/ CheckPause(t)
          \/ NetCheck(t) \/ WaitForInternet(t) \/ FetchRow(t) \/ AfterAlertRow(t)
          \/ SaveDataOpen(t) \/ SaveDataWrite(t)
          \/ SaveFailedRead(t) \/ SaveFailedOpen(t) \/ SaveFailedDump(t)
          \/ Quit(t) \/ ThreadEnd(t)

SpecFlush == InitFlush /\ [][NextFlush]_vars

\* start requests handled concurrently next to the pause, resume and stop
\* controls, over a work list of one item; every page that loads shows one row
InitControl == Init /\ INPUT_FILE.st = "ok" /\ INPUT_FILE.cids = <<"A">>

NextControl ==
    \/ \E h \in Handlers : start_scraping_api(h)
    \/ \E t \in Threads :
          \/ InitializeBrowser(t) \/ LoadInput(t) \/ LoadOutput(t) \/ LoadFailed(t)
          \/ LoadStatus(t) \/ SaveStatusOpen(t) \/ SaveStatusDump(t)
          \/ LoopHead(t) \/ CheckPause(t)
          \/ NetCheck(t) \/ WaitForInternet(t) \/ FetchRow(t) \/ AfterAlertRow(t)
          \/ SaveDataOpen(t) \/ SaveDataWrite(t)
          \/ SaveFailedRead(t) \/ SaveFailedOpen(t) \/ SaveFailedDump(t)
          \/ Quit(t) \/ ThreadEnd(t)
          \/ WorkerPaused(t)
    \/ Pause \/ Resume \/ Stop

SpecControl == InitControl /\ [][NextControl]_vars

\* ------------------------------------------------- save_data on its own
\* save_data(output_data, not_scraped) called with any arguments on any state
\* of the failed list, any number of times
RESULT_SETS == { <<>>, << <<"A", << <<"m1", "10">> >> >> >>,
                 << <<"B", <<>> >>, <<"A", << <<"m1", "10">>, <<"m2", "20">> >> >> >> }

InitSave ==
    /\ should_pause = FALSE
    /\ should_stop = FALSE
    /\ scraper_thread = 1
    /\ \E od \in RESULT_SETS, ns \in SUBSET CIDS :
          thr = [t \in Threads |->
                   IF t = 1 THEN [NoThread EXCEPT !.pc = "sd_open", !.sd_ret = "quit",
                                                  !.driver = TRUE,
                                                  !.output_data = od, !.not_scraped = ns]
                   ELSE NoThread]
    /\ req = [h \in Handlers |-> IdleRequest]
    /\ serving = TRUE
    /\ INPUT_FILE = NoInputFile
    /\ OUTPUT_FILE = NoOutputFile
    /\ FAILED_FILE \in {NoFailedFile, [st |-> "partial", ids |-> {}]}
                        \cup { [st |-> "ok", ids |-> f] : f \in SUBSET CIDS }
    /\ STATUS_FILE = NoStatusFile
    /\ now = 0

\* the next call, with other arguments
CallSaveData(t) ==
    /\ At(t, "quit")
    /\ \E od \in RESULT_SETS, ns \in SUBSET CIDS :
          Set(t, [thr[t] EXCEPT !.pc = "sd_open", !.sd_ret = "quit",
                                !.output_data = od, !.not_scraped = ns])
    /\ UNCHANGED << flags, scraper_thread, req, serving, disk, now >>

NextSave ==
    \E t \in Threads :
        \/ CallSaveData(t)
        \/ SaveDataOpen(t) \/ SaveDataWrite(t)
        \/ SaveFailedRead(t) \/ SaveFailedOpen(t) \/ SaveFailedDump(t)

SpecSave == InitSave /\ [][NextSave]_vars

\* ================================================================= claims
PersistedResults == { load_existing_df[i][1] : i \in DOMAIN load_existing_df }
PersistedFailed == load_existing_failed
InProcessCid(t) == thr[t].pc \in {"net_check", "wait_net", "fetch", "after_alert"}
Cid(t) == thr[t].cid_list[thr[t].index + 1]
NaturalEnd(t) == thr[t].pc = "quit" /\ thr[t].how = "natural"

\* C1: crash-resume loses no progress: when a run reaches natural completion
\* (after any number of crashes and restarts), every identifier of the work list
\* is in the persisted ResultSet or in the persisted FailedSet.  (An identifier
\* whose fetch returned no row has no row to persist and is left aside here.)
NoRows(t) == { c \in Keys(thr[t].output_data) : Get(thr[t].output_data, c) = <<>> }
C1_CrashResumeLosesNothing ==
    \A t \in Threads :
        NaturalEnd(t) =>
            \A i \in DOMAIN thr[t].cid_list :
                thr[t].cid_list[i] \in PersistedResults \cup PersistedFailed \cup NoRows(t)

\* C2: idempotent resume: the worker is never inside process_cid for an
\* identifier that is in its in-memory ResultSet or FailedSet, or in the
\* persisted tabular store or failed list.
C2_IdempotentResume ==
    \A t \in Threads :
        InProcessCid(t) =>
            /\ ~Has(thr[t].output_data, Cid(t))
            /\ Cid(t) \notin thr[t].not_scraped
            /\ Cid(t) \notin PersistedResults \cup PersistedFailed

\* C2 witness: on a second run the worker has just skipped, without a
\* checkpoint, an identifier that failed earlier
C2_Witness ==
    \E t \in Threads :
        /\ thr[t].pc = "loop" /\ now = 2
        /\ thr[t].index >= 1
        /\ thr[t].status.last_processed < thr[t].index
        /\ thr[t].cid_list[thr[t].index] \in thr[t].not_scraped
        /\ thr[t].raised = {}

\* C3: at most one active run: no two scraping_worker threads are alive at
\* once, and no start request is past its already-running check (on its way to
\* spawn a worker) while a worker is alive.
C3_AtMostOneActiveRun ==
    /\ Cardinality({ t \in Threads : is_alive(t) }) <= 1
    /\ \A h \in Handlers :
          req[h].pc \in {"reset_pause", "reset_stop", "create", "start"}
              => \A t \in Threads : ~is_alive(t)

\* C4: at natural completion the persisted last_processed equals the length of
\* the work list.
C4_CompleteMeansAllProcessed ==
    \A t \in Threads :
        NaturalEnd(t) =>
            /\ STATUS_FILE.st = "ok"
            /\ STATUS_FILE.val.last_processed = Len(thr[t].cid_list)

\* C5: monotonic checkpoint: a status write of the worker never lowers the
\* persisted last_processed, and the checkpoint of index i persists i + 1.
C5_MonotonicCheckpoint ==
    [][\A t \in Threads :
          /\ (At(t, "ss_open") /\ thr'[t].pc = "ss_dump")
                => thr[t].status.last_processed >= load_status.last_processed
          /\ (At(t, "ss_dump") /\ thr[t].ss_ret = "periodic" /\ thr'[t].pc \in {"loop", "sd_open"})
                => /\ STATUS_FILE'.st = "ok"
                   /\ STATUS_FILE'.val.last_processed = thr[t].index + 1
                   /\ STATUS_FILE'.val.last_processed >= thr[t].status.last_processed
       ]_vars

\* C5 witness: a resumed run (it started at an index above 0) has written the
\* checkpoint of a later item
C5_Witness ==
    \E t \in Threads :
        /\ thr[t].pc = "loop" /\ now = 2
        /\ thr[t].index >= 2
        /\ STATUS_FILE.st = "ok"
        /\ STATUS_FILE.val.last_processed = thr[t].index
        /\ STATUS_FILE.val.last_updated = 2
        /\ STATUS_FILE.val.start_time = 1

\* C6: pause fidelity: no process_cid call starts while the paused flag is
\* set, and a worker that waits in check_pause has nothing in flight: the
\* status store holds the checkpoint of the last item it attempted.
InPauseWait(t) == thr[t].pc \in {"pause_while", "pause_stop"}
C6_PauseFidelity ==
    /\ [][\A t \in Threads :
            (~InProcessCid(t) /\ InProcessCid(t)') => ~should_pause]_vars
    /\ [](\A t \in Threads :
            InPauseWait(t) => /\ STATUS_FILE.st = "ok"
                              /\ STATUS_FILE.val = thr[t].status
                              /\ STATUS_FILE.val.last_processed <= thr[t].index)

\* C6 witness: item 0 was attempted and checkpointed, the flag is set and the
\* worker waits in check_pause before item 1
C6_Witness ==
    \E t \in Threads :
        /\ should_pause /\ InPauseWait(t)
        /\ thr[t].index = 1 /\ thr[t].index < Len(thr[t].cid_list)
        /\ STATUS_FILE.val.last_processed = 1
        /\ thr[t].returned \cup thr[t].raised # {}

\* C7: stop fidelity: once the stopping flag is set, the worker begins no
\* further iteration (at the top of the loop it leaves the loop); a worker
\* ends its run only from the end of scraping_worker, where a run that left
\* the loop has made the final flush (the tabular store holds ResultSet, the
\* failed list contains FailedSet); and a worker that is in its item loop
\* when the flag is set eventually ends.
Loading == {"init_browser", "load_input", "load_output", "load_failed", "load_status"}
InItemLoop(t) == is_alive(t) /\ thr[t].how = "none" /\ thr[t].pc \notin Loading
FinalFlushDone(t) ==
    /\ OUTPUT_FILE = [st |-> "ok", rows |-> data_list(thr[t].output_data)]
    /\ thr[t].not_scraped # {} => (FAILED_FILE.st = "ok" /\ thr[t].not_scraped \subseteq FAILED_FILE.ids)
C8_FailurePermanence ==
    [][\A t \in Threads :
          /\ (At(t, "fl_open") /\ thr'[t].pc = "fl_dump")
                => PersistedFailed \subseteq thr[t].sd_failed
          /\ (At(t, "fl_dump") /\ thr'[t].pc \in {"loop", "quit"})
                => /\ FAILED_FILE'.st = "ok"
                   /\ FAILED_FILE'.ids = thr[t].sd_failed
                   /\ thr[t].not_scraped \subseteq FAILED_FILE'.ids
          /\ (At(t, "sd_write") /\ thr[t].not_scraped = {}) => FAILED_FILE' = FAILED_FILE
       ]_vars

\* C8 witness: a call given {"B"} has returned, and "A", which only the disk
\* held, is still in the list
C8_Witness ==
    /\ thr[1].pc = "quit" /\ thr[1].not_scraped = {"B"}
    /\ FAILED_FILE.st = "ok" /\ FAILED_FILE.ids = {"A", "B"}

\* C9: a terminal item failure never aborts the run: the step in which
\* process_cid raises adds the identifier to FailedSet, leaves the success
\* counter alone and goes on to the checkpoint of that index; the checkpoint is
\* then written and the loop moves to the next index.
Raises(t) == InProcessCid(t) /\ thr[t].retries = MAX_RETRIES - 1 /\ thr'[t].retries = MAX_RETRIES
C9_FailureDoesNotAbort ==
    [][\A t \in Threads :
          /\ Raises(t)
                => /\ Cid(t) \in thr'[t].not_scraped
                   /\ ~Has(thr'[t].output_data, Cid(t))
                   /\ thr'[t].success_count = thr[t].success_count
                   /\ thr'[t].index = thr[t].index
                   /\ thr'[t].pc = "ss_open" /\ thr'[t].ss_ret = "periodic"
                   /\ thr'[t].status.last_processed = thr[t].index + 1
                   /\ thr'[t].status.total_processed = thr[t].success_count
          /\ (At(t, "ss_open") /\ thr[t].ss_ret = "periodic" /\ thr'[t].pc # "ss_open")
                => thr'[t].pc \in {"ss_dump", "none"}
          /\ (At(t, "ss_dump") /\ thr[t].ss_ret = "periodic" /\ thr'[t].pc \notin {"ss_dump", "none"})
                => /\ STATUS_FILE' = [st |-> "ok", val |-> thr[t].status]
                   /\ IF (thr[t].index + 1) % FLUSH_EVERY = 0
                      THEN thr'[t].pc = "sd_open" /\ thr'[t].sd_ret = "next"
                      ELSE thr'[t].pc = "loop" /\ thr'[t].index = thr[t].index + 1
       ]_vars

\* C9 witness: item 0 exhausted its retries, its checkpoint is on disk, and
\* the worker is fetching item 1
C9_Witness ==
    \E t \in Threads :
        /\ InProcessCid(t) /\ thr[t].index = 1
        /\ thr[t].cid_list[1] \in thr[t].raised
        /\ thr[t].cid_list[1] \in thr[t].not_scraped
        /\ STATUS_FILE.st = "ok" /\ STATUS_FILE.val.last_processed = 1
        /\ STATUS_FILE.val.total_processed = 0

\* C10: from empty stores, at natural completion ResultSet is the set of
\* identifiers whose fetch returned, FailedSet the set of those whose fetch
\* exhausted its retries, they are disjoint and cover the work list, and
\* total_processed (in memory and persisted) is the size of ResultSet.
C10_ResultsMatchOutcomes ==
    \A t \in Threads :
        (NaturalEnd(t) /\ thr[t].from_empty) =>
            /\ Keys(thr[t].output_data) = thr[t].returned
            /\ thr[t].not_scraped = thr[t].raised
            /\ thr[t].returned \cap thr[t].raised = {}
            /\ thr[t].returned \cup thr[t].raised
                  = { thr[t].cid_list[i] : i \in DOMAIN thr[t].cid_list }
            /\ thr[t].status.total_processed = Cardinality(Keys(thr[t].output_data))
            /\ STATUS_FILE.st = "ok"
            /\ STATUS_FILE.val.total_processed = Cardinality(Keys(thr[t].output_data))

\* C10 witness: such a run ended with one success and one failure
C10_Witness ==
    \E t \in Threads :
        /\ NaturalEnd(t) /\ thr[t].from_empty
        /\ thr[t].returned # {} /\ thr[t].raised # {}

\* C11: resume after stop.  A run that ends by stop leaves the status store
\* with last_processed = k, the offset right after the last item attempted (its
\* start index if it attempted none); nothing but save_status changes the
\* status store; a run starts iterating at the persisted last_processed; its
\* index never decreases, so it makes no fetch below k; and at the index it is
\* at it fetches the identifier unless ResultSet or FailedSet holds it.
StoppedEnd(t) == At(t, "quit") /\ thr[t].how = "stopped"
Known(t) == Has(thr[t].output_data, Cid(t)) \/ Cid(t) \in thr[t].not_scraped
C11_ResumeAfterStop ==
    /\ [](\A t \in Threads :
            StoppedEnd(t) => /\ STATUS_FILE.st = "ok"
                             /\ STATUS_FILE.val.last_processed = thr[t].attempted_to)
    /\ [][\A t \in Threads :
            /\ (\A u \in Threads : thr[u].pc \notin {"ss_open", "ss_dump"})
                  => STATUS_FILE' = STATUS_FILE
            /\ (At(t, "load_status") /\ is_alive(t)' /\ thr'[t].pc # "load_status")
                  => thr'[t].index = load_status.last_processed
            /\ (InItemLoop(t) /\ is_alive(t)')
                  => thr'[t].index >= thr[t].index
            /\ (thr[t].pc \in {"check_pause", "pause_while"} /\ ~should_pause
                   /\ is_alive(t)' /\ thr'[t] # thr[t])
                  => IF Known(t)
                     THEN thr'[t].pc = "loop" /\ thr'[t].index = thr[t].index + 1
                     ELSE thr'[t].pc = "net_check" /\ thr'[t].index = thr[t].index
       ]_vars

\* C11 witness: the first run attempted item 0 and made its final flush (it was
\* stopped: a natural end would have left last_processed = 2); the second run
\* started at index 1 and is fetching item 1 as its first fetch
C11_Witness ==
    \E t \in Threads :
        /\ now = 2 /\ InProcessCid(t) /\ thr[t].index = 1
        /\ thr[t].returned \cup thr[t].raised = {}
        /\ thr[t].attempted_to = 1
        /\ STATUS_FILE.st = "ok" /\ STATUS_FILE.val.last_processed = 1
        /\ OUTPUT_FILE.st = "ok"
        /\ Len(thr[t].cid_list) = 2 /\ thr[t].cid_list[1] # thr[t].cid_list[2]

\* C12: final flush on every loop exit.  The item loop is left only for the
\* final save_data (no exception leaves it: every call of its body that can
\* raise is inside a try); the end of the worker is reached from the item loop
\* only through the last step of that save_data; and there the tabular store
\* holds the rows of the in-memory ResultSet and the failed list contains the
\* in-memory FailedSet.
LeftLoop(t) == thr[t].how \in {"natural", "stopped"}
InFinalSave(t) ==
    /\ thr[t].pc \in {"sd_open", "sd_write", "fl_read", "fl_open", "fl_dump"}
    /\ thr[t].sd_ret = "quit"
C12_FinalFlush ==
    /\ [][\A t \in Threads :
            /\ (InItemLoop(t) /\ is_alive(t)' /\ ~InItemLoop(t)')
                  => (LeftLoop(t)' /\ thr'[t].pc = "sd_open" /\ thr'[t].sd_ret = "quit")
            /\ (LeftLoop(t) /\ thr[t].pc \notin {"quit", "end"} /\ is_alive(t)')
                  => (InFinalSave(t) /\ (InFinalSave(t)' \/ thr'[t].pc = "quit"))
            /\ (LeftLoop(t) /\ ~At(t, "quit") /\ thr'[t].pc = "quit")
                  => thr[t].pc \in {"sd_write", "fl_dump"}
            /\ (LeftLoop(t) /\ thr[t].pc \in {"quit", "end"} /\ is_alive(t)')
                  => (thr'[t].pc \in {"quit", "end"} /\ disk' = disk)
       ]_vars
    /\ [](\A t \in Threads :
            (LeftLoop(t) /\ thr[t].pc \in {"quit", "end"}) =>
                /\ OUTPUT_FILE.st = "ok"
                /\ OUTPUT_FILE.rows = data_list(thr[t].output_data)
                /\ thr[t].not_scraped \subseteq PersistedFailed)

\* C12 witness: a run with a result and a failure in memory has left the loop
\* and made its final flush of both
C12_Witness ==
    \E t \in Threads :
        /\ At(t, "quit") /\ LeftLoop(t)
        /\ thr[t].returned # {} /\ thr[t].raised # {}
        /\ OUTPUT_FILE.st = "ok" /\ OUTPUT_FILE.rows # <<>>
        /\ FAILED_FILE.st = "ok" /\ thr[t].raised \subseteq FAILED_FILE.ids

\* C13: the browser is released on every exit path.  A worker thread ends
\* only after the finally block; when it ends, driver.quit has been called
\* exactly once if initialize_browser returned a driver and not at all if it
\* raised; and no call is made before the finally block.
C13_DriverReleased ==
    /\ [][\A t \in Threads :
            (is_alive(t) /\ thr'[t].pc = "done") => At(t, "end")]_vars
    /\ [](\A t \in Threads :
            /\ At(t, "end") => thr[t].quit_calls = (IF thr[t].driver THEN 1 ELSE 0)
            /\ (is_alive(t) /\ ~At(t, "end")) => thr[t].quit_calls = 0
            /\ (is_alive(t) /\ thr[t].pc \notin {"init_browser", "quit", "end"}) => thr[t].driver)

\* C13 witness: the browser started, the work list could not be loaded, and
\* the browser has been closed once
C13_Witness ==
    \E t \in Threads :
        /\ At(t, "end") /\ thr[t].how = "failed"
        /\ thr[t].driver /\ thr[t].quit_calls = 1

\* C14: a resource acquisition failure is fatal to the run only.  A run fails
\* only where initialize_browser or the read of the work list raises, and an
\* unreadable work list always fails it; up to there and from there on the
\* worker writes no store and makes no fetch, and its only steps are the
\* finally block and the end of the thread, which nothing blocks; once the
\* thread has ended, a status request that checks it answers inactive and a
\* start request that checks it is accepted (while the process lives).
Ended == scraper_thread # 0 /\ thr[scraper_thread].pc = "done"
C14_AcquisitionFailure ==
    /\ [][\A t \in Threads :
            /\ (thr[t].pc \in {"init_browser", "load_input"} /\ is_alive(t)')
                  => disk' = disk
            /\ (thr[t].how # "failed" /\ thr'[t].how = "failed")
                  => (thr[t].pc \in {"init_browser", "load_input"} /\ thr'[t].pc = "quit")
            /\ (At(t, "load_input") /\ INPUT_FILE.st # "ok" /\ thr'[t] # thr[t])
                  => thr'[t].how = "failed"
            /\ (thr[t].how = "failed" /\ thr'[t] # thr[t])
                  => /\ disk' = disk
                     /\ \/ At(t, "quit") /\ thr'[t].pc = "end"
                        \/ At(t, "end") /\ thr'[t].pc = "done"
       ]_vars
    /\ [](\A t \in Threads :
            thr[t].how = "failed" => /\ thr[t].returned \cup thr[t].raised = {}
                                     /\ thr[t].output_data = <<>>
                                     /\ ENABLED Worker(t))
    /\ [][\A h \in Handlers :
            /\ (Ended /\ Ended' /\ req[h].pc \in {"st_thread", "st_alive"} /\ req'[h] # req[h])
                  => (req'[h].pc \in {"st_alive", "idle"}
                      /\ (req'[h].pc = "idle" => req'[h].resp = "inactive: not running"))
            /\ (Ended /\ Ended' /\ req[h].pc = "check" /\ req'[h] # req[h])
                  => req'[h].pc = "reset_pause"
       ]_vars

\* C14 witness: there is no work list, so every run failed; no store exists, a
\* status request has found the ended thread and answered inactive, and a
\* second start request has been accepted
C14_Witness ==
    /\ INPUT_FILE.st = "absent" /\ now = 2
    /\ STATUS_FILE.st = "absent" /\ OUTPUT_FILE.st = "absent" /\ FAILED_FILE.st = "absent"
    /\ req[1] = [IdleRequest EXCEPT !.resp = "200"]
    /\ req[2] = NotRunning

\* C15: bounded retry.  A call of process_cid starts with no failed attempt;
\* while it runs, fewer than MAX_RETRIES attempts have failed, so the attempt
\* in progress is at most the MAX_RETRIES-th; it returns in the step in which
\* a page load succeeds, with that result and no further attempt; and it
\* raises only in the step in which the MAX_RETRIES-th attempt fails.
C15_BoundedRetry ==
    /\ [](\A t \in Threads :
            InProcessCid(t) => thr[t].retries \in 0..(MAX_RETRIES - 1))
    /\ [][\A t \in Threads :
            /\ (~InProcessCid(t) /\ InProcessCid(t)') => thr'[t].retries = 0
            /\ (InProcessCid(t) /\ is_alive(t)' /\ thr'[t] # thr[t])
                  => \/ /\ InProcessCid(t)'
                        /\ thr'[t].index = thr[t].index
                        /\ thr'[t].retries \in {thr[t].retries, thr[t].retries + 1}
                        /\ thr'[t].output_data = thr[t].output_data
                        /\ thr'[t].not_scraped = thr[t].not_scraped
                     \/ /\ thr[t].pc \in {"fetch", "after_alert"} /\ thr'[t].pc = "ss_open"
                        /\ thr'[t].retries = thr[t].retries
                        /\ Has(thr'[t].output_data, Cid(t))
                        /\ Get(thr'[t].output_data, Cid(t)) \in CID_DATA
                        /\ thr'[t].not_scraped = thr[t].not_scraped
                     \/ /\ thr'[t].pc = "ss_open"
                        /\ thr[t].retries = MAX_RETRIES - 1
                        /\ thr'[t].retries = MAX_RETRIES
                        /\ thr'[t].output_data = thr[t].output_data
                        /\ thr'[t].not_scraped = thr[t].not_scraped \cup {Cid(t)}
       ]_vars

\* C15 witness: an earlier identifier exhausted its attempts, and the worker is
\* loading the page for the next one in its last allowed attempt
C15_Witness ==
    \E t \in Threads :
        /\ At(t, "fetch") /\ thr[t].retries = MAX_RETRIES - 1
        /\ thr[t].index = 1 /\ thr[t].cid_list[1] \in thr[t].raised

\* C16: the status report.  A status request answers inactive in the step in
\* which it finds no worker thread or finds the thread not alive, and only
\* there; having found it alive, it answers paused if it reads the paused flag
\* set, otherwise stopping if it reads the stopping flag set, otherwise
\* running, and the answer carries last_processed and total_processed as
\* load_status gave them at the start of the request (the stored values, or 0
\* when the store cannot be read); and no step of the request is ever blocked.
InStatus(h) == req[h].pc \in {"st_load", "st_thread", "st_alive", "st_pause", "st_stop"}
Answers(h) == InStatus(h) /\ req'[h].pc = "idle" /\ serving' = serving
IsInactive(r) == r.resp \in {"inactive: no session", "inactive: not running"}
NoWorker == scraper_thread = 0 \/ ~is_alive(scraper_thread)
C16_StatusReport ==
    /\ [][\A h \in Handlers :
            /\ (req[h].pc = "st_load" /\ req'[h] # req[h] /\ serving' = serving)
                  => /\ req'[h].pc = "st_thread"
                     /\ req'[h].status.last_processed
                           = (IF STATUS_FILE.st = "ok" THEN STATUS_FILE.val.last_processed ELSE 0)
                     /\ req'[h].status.total_processed
                           = (IF STATUS_FILE.st = "ok" THEN STATUS_FILE.val.total_processed ELSE 0)
            /\ (req[h].pc = "st_thread" /\ req'[h] # req[h] /\ serving' = serving)
                  => ((scraper_thread = 0) <=> (req'[h].pc = "idle" /\ IsInactive(req'[h])))
            /\ (req[h].pc = "st_alive" /\ req'[h] # req[h] /\ serving' = serving)
                  => (NoWorker <=> (req'[h].pc = "idle" /\ IsInactive(req'[h])))
            /\ (Answers(h) /\ IsInactive(req'[h]))
                  => (req[h].pc \in {"st_thread", "st_alive"} /\ NoWorker)
            /\ (Answers(h) /\ ~IsInactive(req'[h]))
                  => /\ req[h].pc \in {"st_pause", "st_stop"}
                     /\ req'[h].resp = (IF req[h].pc = "st_pause" THEN "paused"
                                        ELSE IF should_stop THEN "stopping" ELSE "running")
                     /\ req'[h].status = req[h].status
            /\ (req[h].pc = "st_pause" /\ req'[h] # req[h] /\ serving' = serving)
                  => (should_pause <=> req'[h].pc = "idle")
            /\ (InStatus(h) /\ InStatus(h)' /\ req[h].pc # "st_load")
                  => req'[h].status = req[h].status
       ]_vars
    /\ [](\A h \in StatusHandlers : InStatus(h) => ENABLED scraping_status_api(h))

\* C16 witness: a second run is alive and paused, and a status request has
\* answered paused with the counters the first run stored
C16_Witness ==
    \E h \in StatusHandlers :
        /\ req[h].pc = "idle" /\ req[h].resp = "paused"
        /\ req[h].status.last_processed = 1 /\ req[h].status.total_processed = 1
        /\ now = 2 /\ active /\ should_pause

\* C17: every accepted start resets the control flags before the new worker
\* is started.  A start request that passes the already-running check clears
\* the paused flag, then the stopping flag, then creates the thread, then
\* starts it; a worker thread starts running only in that last step; and at
\* that step the paused flag is clear and the stopping flag is clear unless a
\* SIGINT has arrived since (the process is then no longer serving).
C17_StartResetsFlags ==
    [][\A h \in Handlers :
          /\ (req[h].pc = "reset_pause" /\ req'[h].pc # "reset_pause" /\ req'[h].pc # "idle")
                => (req'[h].pc = "reset_stop" /\ ~should_pause')
          /\ (req[h].pc = "reset_stop" /\ req'[h].pc # "reset_stop" /\ req'[h].pc # "idle")
                => (req'[h].pc = "create" /\ ~should_pause' /\ ~should_stop')
          /\ (req[h].pc = "create" /\ req'[h].pc # "create" /\ req'[h].pc # "idle")
                => (req'[h].pc = "start" /\ ~should_pause'
                    /\ thr'[scraper_thread'].pc = "new")
          /\ (req[h].pc # "create" /\ req'[h].pc = "start") => req[h].pc = "start"
          /\ \A t \in Threads :
                (~is_alive(t) /\ is_alive(t)')
                    => /\ \E g \in Handlers : req[g].pc = "start" /\ req'[g].resp = "200"
                       /\ thr'[t].pc = "init_browser"
                       /\ ~should_pause'
                       /\ should_stop' => ~serving'
      ]_vars

\* C17 witness: the only run so far made its final flush before the end of
\* its list, so it was stopped and left the stopping flag set; its thread has
\* ended, and a start request has passed the check and cleared both flags
C17_Witness ==
    \E h \in Handlers :
        /\ req[h].pc = "create" /\ now = 1 /\ serving
        /\ scraper_thread # 0 /\ thr[scraper_thread].pc = "done"
        /\ ~should_pause /\ ~should_stop
        /\ INPUT_FILE.st = "ok" /\ Len(INPUT_FILE.cids) = 2
        /\ INPUT_FILE.cids[1] # INPUT_FILE.cids[2]
        /\ OUTPUT_FILE.st = "ok"
        /\ STATUS_FILE.st = "ok" /\ STATUS_FILE.val.last_processed < 2

\* C18: a store that cannot be read at startup is an empty store.  With the
\* tabular store missing or unreadable the run goes on with an empty
\* ResultSet, with the failed list missing or unreadable with an empty
\* FailedSet, with the status file missing or unreadable with last_processed
\* = 0 and total_processed = 0; and a run that has read its work list enters
\* the item loop whatever the stores hold.
Unreadable(f) == f.st # "ok"
Steps(t) == is_alive(t)' /\ thr'[t] # thr[t]
C18_ReadFailureIsEmpty ==
    /\ [][\A t \in Threads :
            /\ (At(t, "load_output") /\ Steps(t))
                  => /\ thr'[t].pc = "load_failed"
                     /\ Unreadable(OUTPUT_FILE) => thr'[t].output_data = <<>>
            /\ (At(t, "load_failed") /\ Steps(t))
                  => /\ thr'[t].pc = "load_status"
                     /\ Unreadable(FAILED_FILE) => thr'[t].not_scraped = {}
            /\ (At(t, "load_status") /\ Steps(t))
                  => /\ thr'[t].pc \in {"ss_open", "loop"}
                     /\ thr'[t].pc = "ss_open" => thr'[t].ss_ret = "loop"
                     /\ Unreadable(STATUS_FILE)
                           => /\ thr'[t].index = 0
                              /\ thr'[t].success_count = 0
                              /\ thr'[t].status.last_processed = 0
                              /\ thr'[t].status.total_processed = 0
            /\ (thr[t].pc \in {"ss_open", "ss_dump"} /\ thr[t].ss_ret = "loop" /\ Steps(t))
                  => (thr'[t].pc = (IF At(t, "ss_open") THEN "ss_dump" ELSE "loop")
                      /\ thr'[t].index = thr[t].index)
       ]_vars
    /\ [](\A t \in Threads :
            (thr[t].pc \in {"load_output", "load_failed", "load_status"}
               \/ (thr[t].pc \in {"ss_open", "ss_dump"} /\ thr[t].ss_ret = "loop"))
                  => thr[t].how = "none")

\* C18 witness: the process died while it wrote the status file; the next run
\* found it unreadable, starts at index 0 with no success counted, and is about
\* to write its start time and enter the loop
C18_Witness ==
    \E t \in Threads :
        /\ now = 2 /\ At(t, "ss_open") /\ thr[t].ss_ret = "loop"
        /\ STATUS_FILE.st = "partial"
        /\ thr[t].index = 0 /\ thr[t].success_count = 0

\* C19: per-item checkpoint ordering.  The step in which process_cid returns
\* or raises for the item at index i records the outcome in memory and goes to
\* the status write with last_processed = i + 1 and total_processed = the
\* success count; that write is completed before the loop goes on; and
\* whenever the worker is inside process_cid, the status store holds the
\* checkpoint of the last item attempted before: its offset and the current
\* success count.
C19_CheckpointOrdering ==
    /\ [][\A t \in Threads :
            /\ (InProcessCid(t) /\ Steps(t) /\ ~InProcessCid(t)')
                  => /\ Has(thr'[t].output_data, Cid(t)) \/ Cid(t) \in thr'[t].not_scraped
                     /\ thr'[t].pc = "ss_open" /\ thr'[t].ss_ret = "periodic"
                     /\ thr'[t].index = thr[t].index
                     /\ thr'[t].status.last_processed = thr[t].index + 1
                     /\ thr'[t].status.total_processed = thr'[t].success_count
            /\ (thr[t].pc \in {"ss_open", "ss_dump"} /\ thr[t].ss_ret = "periodic" /\ Steps(t))
                  => /\ thr'[t].status = thr[t].status
                     /\ thr'[t].success_count = thr[t].success_count
                     /\ IF At(t, "ss_open")
                        THEN thr'[t].pc = "ss_dump" /\ STATUS_FILE'.st = "partial"
                        ELSE /\ STATUS_FILE' = [st |-> "ok", val |-> thr[t].status]
                             /\ thr'[t].pc \in {"loop", "sd_open"}
       ]_vars
    /\ [](\A t \in Threads :
            InProcessCid(t) =>
                /\ STATUS_FILE.st = "ok"
                /\ STATUS_FILE.val.last_processed = thr[t].attempted_to
                /\ STATUS_FILE.val.total_processed = thr[t].success_count
                /\ thr[t].attempted_to <= thr[t].index)

\* C19 witness: item 0 succeeded in this run, its checkpoint (1, 1) is in the
\* status store, and the worker is inside process_cid for item 1
C19_Witness ==
    \E t \in Threads :
        /\ InProcessCid(t) /\ thr[t].index = 1
        /\ thr[t].cid_list[1] \in thr[t].returned
        /\ STATUS_FILE.st = "ok"
        /\ STATUS_FILE.val.last_processed = 1 /\ STATUS_FILE.val.total_processed = 1

\* C20: periodic flush: at every point of a run, at most FLUSH_EVERY items have
\* been attempted since the last save_data returned (since the start of the
\* run, before the first one).
C20_PeriodicFlush ==
    \A t \in Threads : thr[t].since_flush <= FLUSH_EVERY

\* C21: strictly sequential processing: at every moment at most one
\* process_cid call is in flight in the whole process, and within a run an
\* item is fetched only at an index at or beyond the offset right after the
\* item the run attempted last (the fetches are in increasing index order).
InFlight == { t \in Threads : InProcessCid(t) }
C21_SequentialProcessing ==
    /\ Cardinality(InFlight) <= 1
    /\ \A t \in InFlight : thr[t].index >= thr[t].attempted_to

\* C22: the control flags are mutated only by the control surface: no step of
\* the worker (scraping_worker, check_pause, process_cid) changes the value of
\* the paused flag or of the stopping flag.
WorkerStep == \E t \in Threads : is_alive(t) /\ thr'[t] # thr[t] /\ thr'[t].pc # "none"
C22_FlagsOnlyRead ==
    [][WorkerStep => flags' = flags]_vars

\* C23: start_time is stamped once.  A run that loads a status without
\* start_time stamps it with the current time and goes on to persist the
\* status; a run that loads a status with start_time keeps it; a worker never
\* changes the start_time it holds; every write of the status file stores the
\* writer's start_time, which is the one the file held when the write began;
\* a write that has begun is completed by its writer; and while an item is
\* processed the status file is complete and holds the run's start_time.
Stamped(f) == f.st = "ok" /\ f.val.start_time # 0
InNetCheck(t) == thr[t].pc \in {"net_check", "wait_net"}
C24_NetworkNotCharged ==
    [][\A t \in Threads :
          /\ (is_alive(t) /\ is_alive(t)' /\ thr'[t].pc = "fetch" /\ thr[t].pc # "fetch")
                => InNetCheck(t)
          /\ (is_alive(t) /\ is_alive(t)' /\ InNetCheck(t))
                => /\ thr'[t].retries = thr[t].retries
                   /\ thr'[t].not_scraped = thr[t].not_scraped
                   /\ thr'[t].pc \in {"net_check", "wait_net", "fetch"}
      ]_vars

\* C25 (as stated): increasing backoff: the delay process_cid waits after its
\* n-th failed attempt is strictly greater than the delay after its (n-1)-th,
\* for every n from 2 to MAX_RETRIES - 1, and no delay is waited after the
\* last failed attempt.
C25_IncreasingBackoff ==
    \A t \in Threads :
        /\ \A n \in 2..Len(thr[t].slept) : thr[t].slept[n] > thr[t].slept[n - 1]
        /\ Len(thr[t].slept) <= MAX_RETRIES - 1

\* C25 (amended): constant retry delay: after each failed attempt but the last
\* process_cid waits CAPTCHA_RETRY_DELAY seconds, the same after every
\* attempt, and no delay is waited after the last failed attempt.
C25_ConstantDelay ==
    \A t \in Threads :
        /\ Len(thr[t].slept) = (IF thr[t].retries < MAX_RETRIES THEN thr[t].retries
                                 ELSE MAX_RETRIES - 1)
        /\ \A n \in DOMAIN thr[t].slept : thr[t].slept[n] = CAPTCHA_RETRY_DELAY

\* C25 witness: the call has failed MAX_RETRIES times, slept after the first
\* MAX_RETRIES - 1 failures, and raised
C25_Witness ==
    \E t \in Threads :
        /\ thr[t].retries = MAX_RETRIES /\ Len(thr[t].slept) = MAX_RETRIES - 1
        /\ At(t, "ss_open") /\ thr[t].cid_list[thr[t].index + 1] \in thr[t].raised

\* C26: durable round trip of results: once save_data has flushed a
\* ResultSet R, the startup load and reconstruction of scraping_worker applied
\* to the tabular store yields R again (the same identifiers, each with the
\* same period -> value pairs), and a flush of what was loaded writes the same
\* set of (id, period, value) rows.
Pairs(d) == { d[i] : i \in DOMAIN d }
AsMapping(output_data) == { << output_data[i][1], Pairs(output_data[i][2]) >> : i \in DOMAIN output_data }
C26_DurableRoundTrip ==
    \A t \in Threads :
        (At(t, "quit") /\ OUTPUT_FILE.st = "ok")
           => LET loaded == rebuild(load_existing_df, <<>>)
              IN /\ AsMapping(loaded) = AsMapping(thr[t].output_data)
                 /\ Pairs(data_list(loaded)) = Pairs(OUTPUT_FILE.rows)

\* C27: a status request interleaved with a status write of the worker
\* returns either the ProgressStatus the store held before that write or the
\* one the write stores: the load of a status request made while a worker is
\* between the truncation and the dump of save_status gives one of the two.
C27_StatusDuringWrite ==
    [][\A h \in StatusHandlers :
          (req[h].pc = "st_load" /\ req'[h].pc = "st_thread")
             => \A t \in Threads :
                   At(t, "ss_dump") => req'[h].status \in {thr[t].ss_before, thr[t].status}
      ]_vars

\* C28: a rejected start has no effect on the active run.  A start request
\* whose already-running check is made while a worker is alive is answered
\* with the error and goes no further; and every step of a start request up to
\* and including the rejection leaves the paused flag, the stopping flag, the
\* thread reference, the worker and the durable stores unchanged.
Rejected(h) == req[h].pc = "check" /\ req'[h].pc = "idle" /\ req'[h].resp = "400"
C28_RejectedStartNoEffect ==
    [][\A h \in Handlers :
          /\ (req[h].pc = "check" /\ req'[h] # req[h] /\ serving' = serving /\ active)
                => Rejected(h)
          /\ (Rejected(h) /\ serving' = serving)
                => /\ active
                   /\ UNCHANGED << flags, scraper_thread, thr, disk >>
          /\ (req[h].pc = "idle" /\ req'[h].pc = "check")
                => UNCHANGED << flags, scraper_thread, thr, disk >>
      ]_vars

\* C28 witness: a start request has been rejected and the run it met is still
\* alive, paused inside check_pause, with the stopping flag set as well
C28_Witness ==
    \E h \in Handlers, t \in Threads :
        /\ req[h].pc = "idle" /\ req[h].resp = "400"
        /\ scraper_thread = t /\ InPauseWait(t)
        /\ should_pause /\ should_stop

\* C29: uniform failure classification.  Every step of a fetch attempt either
\* returns the result of the page, or ends the attempt on a failure that was
\* raised (the rejection shown as an alert after the sign-in included): the
\* failure is counted once and is followed by a retry or, when the budget is
\* exhausted, by the terminal failure of the item.  No step keeps the attempt
\* going after a rejection was detected.
InAttempt(t) == thr[t].pc \in {"fetch", "after_alert"}
C29_UniformFailure ==
    [][\A t \in Threads :
          (InAttempt(t) /\ is_alive(t)' /\ thr'[t] # thr[t])
             => \/ /\ thr'[t].pc = "ss_open"
                   /\ thr'[t].retries = thr[t].retries
                   /\ Cid(t) \in thr'[t].returned
                \/ /\ thr'[t].retries = thr[t].retries + 1
                   /\ \/ thr'[t].pc = "net_check"
                      \/ /\ thr'[t].retries = MAX_RETRIES
                         /\ thr'[t].pc = "ss_open"
                         /\ Cid(t) \in thr'[t].not_scraped
      ]_vars
====
